---- MODULE Spec2Model ----
(***************************************************************************)
(* Model of gas_price_checker.py: the notification state machine of        *)
(* check_gas_price_and_notify, the retry wrapper retry_with_backoff, the   *)
(* poll loop main_loop and the signal handler handle_shutdown.             *)
(*                                                                         *)
(* Environment assumptions (outside the source): the Telegram chat gives   *)
(* every message it creates an id that was never used before (nextId), a   *)
(* chat call that raises TelegramError has had no effect on the chat, and  *)
(* the bot token is well formed, so that Bot(token=...) does not raise.    *)
(***************************************************************************)
EXTENDS Integers, Sequences, FiniteSets, TLC

\* ---- program constants --------------------------------------------------
\* None, for a message id (Telegram ids are positive, and
\* delete_telegram_message tests the id for truth)
None == 0
\* last_price before the first successful fetch
NoPrice == -1
\* GAS_FEE_LOWER_THRESHOLD, GAS_FEE_UPPER_THRESHOLD, CHECK_INTERVAL defaults
gas_fee_lower_threshold == 30
gas_fee_upper_threshold == 50
check_interval == 300
\* retry_with_backoff(task, retries=2, delay=5)
retries == 2
delay == 5

\* ---- bounds -------------------------------------------------------------
\* number of messages the chat hands out ids for
MaxMsgs == 2
\* prices the oracle may report: below lower, the band's two ends and its
\* inside, above upper
Prices == {20, 25, 30, 40, 50, 55, 60}

\* outcomes of the fetch in check_gas_price_and_notify
\*   ok      : 200, JSON, status '1', result.ProposeGasPrice parses as float
\*   network : requests.get raises (connection error, timeout)
\*   http    : raise_for_status raises HTTPError (non-200)
\*   json    : response.json() raises a JSON decode error
\*   status  : data['status'] != '1'
\*   field   : 'result' or 'ProposeGasPrice' absent
\*   float   : ProposeGasPrice is not a number, float() raises ValueError
FetchKinds == {"ok", "network", "http", "json", "status", "field", "float"}
FetchFailures == FetchKinds \ {"ok"}

VARIABLES
    shutdown_flag,             \* line 56
    last_message_id_in_range,  \* line 59: active_message_ref
    last_price,                \* line 60
    pc,                        \* position of main_loop / retry_with_backoff
    attempt,                   \* loop variable of retry_with_backoff
    jsonIsRequestException,    \* the installed requests raises a
                               \* RequestException subclass from .json()
    chat,                      \* live messages of the bot: <<id, price shown>>
    nextId,                    \* id the chat gives to the next message
    deleted,                   \* ids for which a delete call was issued
    last,                      \* observer: what the most recent check did
    hist,                      \* observer: the checks of the run so far,
                               \* kept while the run is a watched one
    clean,                     \* observer: the run so far is a watched one
    tries,                     \* observer: calls of the check in this tick
    delays,                    \* observer: backoff delays begun in this tick
    waited,                    \* observer: how long the latest wait lasted
    sent,                      \* observer: ids successful sends returned
    callsOk,                   \* observer: no chat call has failed so far
    lastLow                    \* observer: latest fetched price below lower

vars == <<shutdown_flag, last_message_id_in_range, last_price, pc, attempt,
          jsonIsRequestException, chat, nextId, deleted, last, hist, clean,
          tries, delays, waited, sent, callsOk, lastLow>>

\* ---- observer of the run ---------------------------------------------------
\* The runs the observer follows from the initial state, as the prices of
\* their checks; the checks of a followed run all fetched a price and had
\* their chat call, if any, succeed. The observer takes no part in the
\* program's steps: every run of the program is a run of the model.
ScenarioPrices == <<60, 25, 25, 40, 55>>
ChangedPrices == <<25, 20>>
Watched == {ScenarioPrices, ChangedPrices}
IsPrefix(s, t) == Len(s) <= Len(t) /\ \A i \in 1..Len(s) : s[i] = t[i]
HistPrices == [i \in 1..Len(hist) |-> hist[i].price]

\* ---- check_gas_price_and_notify -----------------------------------------

\* NotifyAction without the hysteresis band: the alert is cleared as soon as
\* the price is no longer below lower
NotifyAction_NoBand(p, ref, lp) ==
    IF p < gas_fee_lower_threshold
    THEN IF ref = None THEN <<"send">>
         ELSE IF lp # p THEN <<"edit">> ELSE <<>>
    ELSE IF ref # None THEN <<"delete">> ELSE <<>>

\* NotifyAction clearing at upper itself (>= for >)
NotifyAction_ClearAtUpper(p, ref, lp) ==
    IF p < gas_fee_lower_threshold
    THEN IF ref = None THEN <<"send">>
         ELSE IF lp # p THEN <<"edit">> ELSE <<>>
    ELSE IF p >= gas_fee_upper_threshold /\ ref # None THEN <<"delete">>
         ELSE <<>>

\* NotifyAction sending a new message for a changed price
NotifyAction_Resend(p, ref, lp) ==
    IF p < gas_fee_lower_threshold
    THEN IF ref = None \/ lp # p THEN <<"send">> ELSE <<>>
    ELSE IF p > gas_fee_upper_threshold /\ ref # None THEN <<"delete">>
         ELSE <<>>

\* NotifyAction without the last_price test of line 117
NotifyAction_AlwaysEdit(p, ref, lp) ==
    IF p < gas_fee_lower_threshold
    THEN IF ref = None THEN <<"send">> ELSE <<"edit">>
    ELSE IF p > gas_fee_upper_threshold /\ ref # None THEN <<"delete">>
         ELSE <<>>

\* NotifyAction replacing the message for a changed price: delete, then send
NotifyAction_DeleteThenSend(p, ref, lp) ==
    IF p < gas_fee_lower_threshold
    THEN IF ref = None THEN <<"send">>
         ELSE IF lp # p THEN <<"delete", "send">> ELSE <<>>
    ELSE IF p > gas_fee_upper_threshold /\ ref # None THEN <<"delete">>
         ELSE <<>>

\* NotifyAction editing only when the price has dropped (> for !=)
NotifyAction_EditOnDrop(p, ref, lp) ==
    IF p < gas_fee_lower_threshold
    THEN IF ref = None THEN <<"send">>
         ELSE IF lp > p THEN <<"edit">> ELSE <<>>
    ELSE IF p > gas_fee_upper_threshold /\ ref # None THEN <<"delete">>
         ELSE <<>>

\* NotifyAction with the tests of lines 115 and 117 in the other order and
\* without the id test of line 117
NotifyAction_EditWhenIdle(p, ref, lp) ==
    IF p < gas_fee_lower_threshold
    THEN IF lp # p THEN <<"edit">>
         ELSE IF ref = None THEN <<"send">> ELSE <<>>
    ELSE IF p > gas_fee_upper_threshold /\ ref # None THEN <<"delete">>
         ELSE <<>>

\* NotifyAction sending only when the price has just crossed below lower
NotifyAction_SendOnCrossing(p, ref, lp) ==
    IF p < gas_fee_lower_threshold
    THEN IF ref = None
         THEN IF lp = NoPrice \/ lp >= gas_fee_lower_threshold
              THEN <<"send">> ELSE <<>>
         ELSE IF lp # p THEN <<"edit">> ELSE <<>>
    ELSE IF p > gas_fee_upper_threshold /\ ref # None THEN <<"delete">>
         ELSE <<>>

\* lines 113-125: the chat calls the check makes for a fetched price, in order
NotifyAction(p, ref, lp) ==
    IF p < gas_fee_lower_threshold
    THEN IF ref = None THEN <<"send">>
         ELSE IF lp # p THEN <<"edit">> ELSE <<>>
    ELSE IF p > gas_fee_upper_threshold /\ ref # None THEN <<"delete">>
         ELSE <<>>

\* send_telegram_message returning an id although the send failed
send_telegram_message_Stale(ok, id) == id

\* lines 63-71: the value send_telegram_message returns
send_telegram_message(ok, id) == IF ok THEN id ELSE None

\* RefAfter without line 122: the id is kept after the delete
RefAfter_KeepOnDelete(op, ref, ok, id) ==
    CASE op = "send"   -> send_telegram_message(ok, id)
      [] OTHER         -> ref

\* RefAfter clearing the id only when the delete succeeded
RefAfter_ClearIfDeleted(op, ref, ok, id) ==
    CASE op = "send"   -> send_telegram_message(ok, id)
      [] op = "delete" -> IF ok THEN None ELSE ref
      [] OTHER         -> ref

\* lines 116, 122: last_message_id_in_range after one chat call
RefAfter(op, ref, ok, id) ==
    CASE op = "send"   -> send_telegram_message(ok, id)
      [] op = "delete" -> None
      [] OTHER         -> ref

\* lines 66, 77, 87: the chat after one call. send adds a message, edit
\* replaces its text, delete removes it; a call that raised TelegramError
\* changes nothing
ChatAfter(op, ref, p, ok, id, c) ==
    IF ~ok THEN c
    ELSE CASE op = "send"   -> c \cup {<<id, p>>}
           [] op = "edit"   -> IF \E m \in c : m[1] = ref
                               THEN {m \in c : m[1] # ref} \cup {<<ref, p>>}
                               ELSE c
           [] op = "delete" -> {m \in c : m[1] # ref}
           [] OTHER         -> c

\* one chat call of the check, on st = [ref, chat, nextId, deleted, calls];
\* calls logs the call: its kind, the id it is addressed to (for a send, the
\* id it returned) and whether it succeeded
\* line 85: delete_telegram_message calls the chat only for a true id.
\* was: the price the addressed message showed before the call
ChatCall(op, st, p, ok) ==
    LET made == ~(op = "delete" /\ st.ref = None)
        okm  == ok /\ made
    IN
    [ref     |-> RefAfter(op, st.ref, ok, st.nextId),
     chat    |-> ChatAfter(op, st.ref, p, okm, st.nextId, st.chat),
     nextId  |-> IF op = "send" /\ ok THEN st.nextId + 1 ELSE st.nextId,
     deleted |-> IF op = "delete" /\ made THEN st.deleted \cup {st.ref}
                 ELSE st.deleted,
     calls   |-> IF ~made THEN st.calls
                 ELSE Append(st.calls,
                   [op |-> op,
                    target |-> IF op = "send"
                               THEN send_telegram_message(ok, st.nextId)
                               ELSE st.ref,
                    was |-> IF op # "send" /\ \E m \in st.chat : m[1] = st.ref
                            THEN (CHOOSE m \in st.chat : m[1] = st.ref)[2]
                            ELSE NoPrice,
                    ok |-> ok])]

\* the calls of one check, made in order
RECURSIVE Notify(_, _, _, _)
Notify(ops, st, p, ok) ==
    IF ops = <<>> THEN st
    ELSE Notify(Tail(ops), ChatCall(Head(ops), st, p, ok), p, ok)

\* lines 99-130: does the check leave by an exception its caller sees?
\* RequestException is caught at line 129; UnboundLocalError (line 128 after
\* the else branch of line 126) and ValueError (line 109) are not.
CheckRaises(kind, jsonCaught) ==
    CASE kind \in {"ok", "network", "http"} -> FALSE
      [] kind = "json"                      -> ~jsonCaught
      [] OTHER                              -> TRUE

\* LastPriceAfter as if line 128 assigned on every path
LastPriceAfter_Always(kind, p, lp) == p

\* LastPriceAfter as if line 128 stood inside the branch of line 113
LastPriceAfter_BelowLower(kind, p, lp) ==
    IF kind = "ok" /\ p < gas_fee_lower_threshold THEN p ELSE lp

\* line 128 is reached with propose_gas_price bound only after line 109
LastPriceAfter(kind, p, lp) == IF kind = "ok" THEN p ELSE lp

\* line 101: the HTTP requests one check makes, whatever the fetch gives
Requests(kind) == <<"GET">>

\* AfterAttempt with range(1, retries + 2): one attempt too many
AfterAttempt_OneMore(raised, a) ==
    IF ~raised THEN "sleep"
    ELSE IF a < retries + 1 THEN "backoff" ELSE "sleep"

\* AfterAttempt re-raising after the last attempt: main_loop ends
AfterAttempt_Fatal(raised, a) ==
    IF ~raised THEN "sleep"
    ELSE IF a < retries THEN "backoff" ELSE "done"

\* lines 134-143: where retry_with_backoff goes after one attempt
AfterAttempt(raised, a) ==
    IF ~raised THEN "sleep"
    ELSE IF a < retries THEN "backoff" ELSE "sleep"

\* line 141: the delay slept after failed attempt a
BackoffDelay(a) == delay * a

Init ==
    /\ shutdown_flag = FALSE
    /\ last_message_id_in_range = None
    /\ last_price = NoPrice
    /\ pc = "loop"
    /\ attempt = 1
    /\ jsonIsRequestException \in BOOLEAN
    /\ chat = {}
    /\ nextId = 1
    /\ deleted = {}
    /\ last = [kind |-> "init", price |-> NoPrice, before |-> None,
               calls |-> <<>>, raised |-> FALSE, requests |-> <<>>,
               flagged |-> FALSE]
    /\ hist = <<>>
    /\ clean = TRUE
    /\ tries = 0
    /\ delays = <<>>
    /\ waited = 0
    /\ sent = {}
    /\ callsOk = TRUE
    /\ lastLow = NoPrice

\* MainLoopEnter as `while True`: the flag is not tested
MainLoopEnter_NoFlagTest ==
    /\ pc = "loop"
    /\ pc' = "attempt"
    /\ attempt' = 1
    /\ tries' = 0
    /\ delays' = <<>>
    /\ UNCHANGED <<shutdown_flag, last_message_id_in_range, last_price,
                   jsonIsRequestException, chat, nextId, deleted, last,
                   hist, clean, waited, sent, callsOk, lastLow>>

\* line 154, flag clear: start a tick, retry_with_backoff begins attempt 1
MainLoopEnter ==
    /\ pc = "loop"
    /\ ~shutdown_flag
    /\ pc' = "attempt"
    /\ attempt' = 1
    /\ tries' = 0
    /\ delays' = <<>>
    /\ UNCHANGED <<shutdown_flag, last_message_id_in_range, last_price,
                   jsonIsRequestException, chat, nextId, deleted, last,
                   hist, clean, waited, sent, callsOk, lastLow>>

\* line 154, flag set: main_loop returns
MainLoopExit ==
    /\ pc = "loop"
    /\ shutdown_flag
    /\ pc' = "done"
    /\ UNCHANGED <<shutdown_flag, last_message_id_in_range, last_price,
                   attempt, jsonIsRequestException, chat, nextId, deleted,
                   last, hist, clean, tries, delays, waited, sent, callsOk,
                   lastLow>>

\* lines 135-143 around lines 93-130: one attempt of the check.
\* kind, p: what the fetch gave; ok: whether the chat call (if any) succeeds
Check(kind, p, ok) ==
    LET ops    == IF kind = "ok"
                  THEN NotifyAction(p, last_message_id_in_range, last_price)
                  ELSE <<>>
        st     == Notify(ops,
                         [ref |-> last_message_id_in_range, chat |-> chat,
                          nextId |-> nextId, deleted |-> deleted,
                          calls |-> <<>>],
                         p, ok)
        raised == CheckRaises(kind, jsonIsRequestException)
        good   == /\ kind = "ok" /\ ok
                  /\ \E w \in Watched : IsPrefix(Append(HistPrices, p), w)
    IN  /\ pc = "attempt"
        /\ kind # "ok" => p = NoPrice
        /\ ops = <<>> => ok
        /\ last_price' = LastPriceAfter(kind, p, last_price)
        /\ pc' = AfterAttempt(raised, attempt)
        /\ st.nextId <= MaxMsgs + 1
        /\ last_message_id_in_range' = st.ref
        /\ chat' = st.chat
        /\ nextId' = st.nextId
        /\ deleted' = st.deleted
        /\ last' = [kind |-> kind, price |-> p,
                    before |-> last_message_id_in_range,
                    calls |-> st.calls, raised |-> raised,
                    requests |-> Requests(kind),
                    flagged |-> shutdown_flag]
        /\ tries' = tries + 1
        /\ delays' = IF AfterAttempt(raised, attempt) = "backoff"
                     THEN Append(delays, BackoffDelay(attempt))
                     ELSE delays
        /\ sent' = sent \cup {st.calls[i].target : i \in
                       {j \in 1..Len(st.calls) :
                          st.calls[j].op = "send" /\ st.calls[j].ok}}
        /\ callsOk' = (callsOk /\ \A i \in 1..Len(st.calls) : st.calls[i].ok)
        /\ lastLow' = IF kind = "ok" /\ p < gas_fee_lower_threshold
                      THEN p ELSE lastLow
        /\ clean' = (clean /\ good)
        /\ hist' = IF clean /\ good
                   THEN Append(hist, [price |-> p, calls |-> ops,
                                      ref |-> st.ref])
                   ELSE <<>>
        /\ UNCHANGED <<shutdown_flag, attempt, jsonIsRequestException,
                       waited>>

CheckAttempt ==
    /\ pc = "attempt"
    /\ \E kind \in FetchKinds :
         \E p \in (IF kind = "ok" THEN Prices ELSE {NoPrice}) :
            \E ok \in BOOLEAN : Check(kind, p, ok)

\* line 141: asyncio.sleep(delay * attempt) returns after that delay (the
\* signal handler only sets the flag, the sleep is not cancelled), and the
\* for loop takes the next attempt
Backoff ==
    /\ pc = "backoff"
    /\ pc' = "attempt"
    /\ attempt' = attempt + 1
    /\ waited' = BackoffDelay(attempt)
    /\ UNCHANGED <<shutdown_flag, last_message_id_in_range, last_price,
                   jsonIsRequestException, chat, nextId, deleted, last,
                   hist, clean, tries, delays, sent, callsOk, lastLow>>

\* line 156: asyncio.sleep(check_interval) returns after the interval
Sleep ==
    /\ pc = "sleep"
    /\ pc' = "loop"
    /\ waited' = check_interval
    /\ UNCHANGED <<shutdown_flag, last_message_id_in_range, last_price,
                   attempt, jsonIsRequestException, chat, nextId, deleted,
                   last, hist, clean, tries, delays, sent, callsOk, lastLow>>

\* lines 159-162: SIGINT / SIGTERM
handle_shutdown ==
    /\ pc # "done"
    /\ ~shutdown_flag
    /\ shutdown_flag' = TRUE
    /\ UNCHANGED <<last_message_id_in_range, last_price, pc, attempt,
                   jsonIsRequestException, chat, nextId, deleted, last,
                   hist, clean, tries, delays, waited, sent, callsOk,
                   lastLow>>

Next ==
    \/ MainLoopEnter
    \/ MainLoopExit
    \/ CheckAttempt
    \/ Backoff
    \/ Sleep
    \/ handle_shutdown

Spec == Init /\ [][Next]_vars

\* a check that makes a send, and the send succeeds
SendSucceeds ==
    /\ pc = "attempt"
    /\ \E p \in Prices :
        /\ NotifyAction(p, last_message_id_in_range, last_price) = <<"send">>
        /\ Check("ok", p, TRUE)

\* a step of main_loop itself (at most one of these is enabled, by pc)
ProgramStep ==
    MainLoopEnter \/ MainLoopExit \/ CheckAttempt \/ Backoff \/ Sleep

\* The scheduling of asyncio.run(main_loop()): every await returns, so the
\* loop test, the check, the backoff delay and the inter-tick sleep each
\* take their step; and the chat does not fail every send for ever.
LiveSpec ==
    /\ Spec
    /\ WF_vars(ProgramStep)
    /\ SF_vars(SendSucceeds)

TypeOK ==
    /\ shutdown_flag \in BOOLEAN
    /\ last_message_id_in_range \in 0..MaxMsgs
    /\ last_price \in Prices \cup {NoPrice}
    /\ pc \in {"loop", "attempt", "backoff", "sleep", "done"}
    /\ attempt \in 1..retries
    /\ nextId \in 1..(MaxMsgs + 1)
    /\ deleted \subseteq 1..MaxMsgs
    /\ clean => \E w \in Watched : IsPrefix(HistPrices, w)

\* ---- properties ---------------------------------------------------------

\* a step that is one attempt of the check
IsCheck == pc = "attempt" /\ pc' # "attempt"
\* the attempt just made fetched a price / failed to
Fetched == last'.kind = "ok"
Idle == last_message_id_in_range = None
Alerting == last_message_id_in_range # None
LiveIds == {m[1] : m \in chat}
Ops(calls) == [i \in 1..Len(calls) |-> calls[i].op]

\* C1: at most one message sent by the program is outstanding in the chat,
\* and last_message_id_in_range is empty or is the id of that one message.
\* Stated as the claim states it; the code breaks it when a delete fails.
C1_AtMostOneOutstanding ==
    /\ Cardinality(LiveIds) <= 1
    /\ Idle \/ LiveIds = {last_message_id_in_range}

\* C2: lower=30, upper=50; from the initial state five checks that succeed
\* with prices 60, 25, 25, 40, 55 make the chat calls none, send, none, none,
\* delete, and end Idle.
ScenarioCalls == << <<>>, <<"send">>, <<>>, <<>>, <<"delete">> >>
ScenarioRun ==
    /\ Len(hist) >= Len(ScenarioPrices)
    /\ \A i \in 1..Len(ScenarioPrices) : hist[i].price = ScenarioPrices[i]
C2_Scenario ==
    ScenarioRun =>
        /\ \A i \in 1..Len(ScenarioPrices) : hist[i].calls = ScenarioCalls[i]
        /\ hist[Len(ScenarioPrices)].ref = None
C2_Witness ==
    /\ ScenarioRun
    /\ Len(hist) = Len(ScenarioPrices)
    /\ Idle
    /\ chat = {}

C4_DeleteThenFreshSend ==
    [][IsCheck =>
        /\ (Fetched /\ last'.price > gas_fee_upper_threshold /\ Alerting)
            => /\ Len(last'.calls) = 1
               /\ last'.calls[1].op = "delete"
               /\ last'.calls[1].target = last_message_id_in_range
               /\ last_message_id_in_range' = None
               /\ last_message_id_in_range \in deleted'
        /\ (Fetched /\ last'.price < gas_fee_lower_threshold /\ Idle)
            => /\ Ops(last'.calls) = <<"send">>
               /\ last'.calls[1].target \notin deleted
        /\ \A i \in 1..Len(last'.calls) :
              last'.calls[i].op \in {"edit", "delete"}
                  => last'.calls[i].target \notin deleted]_vars
C4_Witness ==
    /\ deleted # {}
    /\ last.kind = "ok" /\ last.price < gas_fee_lower_threshold
    /\ last.before = None
    /\ Ops(last.calls) = <<"send">>
    /\ last.calls[1].ok
    /\ last_message_id_in_range \notin deleted
    /\ Alerting

\* C5: a price in [lower, upper] fetched while Alerting makes no chat call
\* and leaves last_message_id_in_range as it was; last_message_id_in_range
\* goes from an id to None only in a check that fetched a price above upper.
C5_HysteresisBand ==
    [][/\ (IsCheck /\ Fetched /\ Alerting
           /\ last'.price >= gas_fee_lower_threshold
           /\ last'.price <= gas_fee_upper_threshold)
          => /\ last'.calls = <<>>
             /\ last_message_id_in_range' = last_message_id_in_range
             /\ chat' = chat
       /\ (Alerting /\ last_message_id_in_range' = None)
          => /\ IsCheck /\ Fetched
             /\ last'.price > gas_fee_upper_threshold]_vars
C5_Witness ==
    /\ last.kind = "ok" /\ last.price = gas_fee_upper_threshold
    /\ last.before # None
    /\ last.calls = <<>>
    /\ Alerting

\* C6: two consecutive checks that succeed, the first from Idle with a price
\* p1 below lower and the second with another price p2 below lower: the
\* first made one send, the second makes exactly one edit, of the message
\* the first sent, and no send; last_message_id_in_range stays that
\* message's id.
C6_EditOnChangedPrice ==
    [][(IsCheck /\ Fetched
        /\ last.kind = "ok" /\ last.before = None
        /\ last.price < gas_fee_lower_threshold
        /\ \A i \in 1..Len(last.calls) : last.calls[i].ok
        /\ last'.price < gas_fee_lower_threshold
        /\ last'.price # last.price)
        => /\ Ops(last.calls) = <<"send">>
           /\ Ops(last'.calls) = <<"edit">>
           /\ last'.calls[1].target = last.calls[1].target
           /\ last_message_id_in_range = last.calls[1].target
           /\ last_message_id_in_range' = last_message_id_in_range
           /\ last_message_id_in_range' # None]_vars
C6_Witness ==
    /\ HistPrices = ChangedPrices
    /\ hist[1].calls = <<"send">>
    /\ hist[2].calls = <<"edit">>
    /\ hist[2].ref = hist[1].ref
    /\ Ops(last.calls) = <<"edit">>
    /\ last_message_id_in_range = last.calls[1].target
    /\ <<last_message_id_in_range, last.price>> \in chat

C8_FetchFailureLeavesState ==
    [][(IsCheck /\ last'.kind \in FetchFailures)
        => /\ last'.calls = <<>>
           /\ last_price' = last_price
           /\ last_message_id_in_range' = last_message_id_in_range
           /\ chat' = chat
           /\ nextId' = nextId
           /\ deleted' = deleted]_vars
C8_Witness ==
    /\ last.kind = "status"
    /\ last.raised
    /\ last.calls = <<>>
    /\ Alerting
    /\ last_price \in Prices
    /\ last_message_id_in_range \in LiveIds

C10_FetchFailureRetried ==
    [][(IsCheck /\ last'.kind \in FetchFailures /\ attempt < retries)
        => pc' = "backoff"]_vars

C12_NoFailureIsFatal ==
    [][/\ (IsCheck /\ last'.raised /\ attempt >= retries) => pc' = "sleep"
       /\ (IsCheck /\ \E i \in 1..Len(last'.calls) : ~last'.calls[i].ok)
            => (~last'.raised /\ pc' = "sleep")
       /\ (pc = "sleep" /\ pc' # pc) => pc' = "loop"
       /\ (pc = "loop" /\ ~shutdown_flag /\ pc' # pc) => pc' = "attempt"
       /\ (pc # "done" /\ pc' = "done") => (pc = "loop" /\ shutdown_flag)]_vars
C12_Witness ==
    /\ pc = "attempt"
    /\ tries = 0
    /\ last.raised
    /\ last.kind \in FetchFailures
    /\ ~shutdown_flag

\* C13: the signal handler only sets shutdown_flag, whatever main_loop is
\* doing; a check made with the flag set makes the calls and the state
\* update it makes with the flag clear; once the flag is set it stays set,
\* no tick is started and the loop test ends main_loop.
C13_CooperativeShutdown ==
    [][/\ shutdown_flag' # shutdown_flag =>
            /\ shutdown_flag'
            /\ UNCHANGED <<last_message_id_in_range, last_price, pc, attempt,
                           chat, nextId, deleted, tries, delays>>
       /\ shutdown_flag => shutdown_flag'
       /\ (IsCheck /\ shutdown_flag /\ Fetched) =>
            /\ Ops(last'.calls) =
                  NotifyAction(last'.price, last_message_id_in_range,
                               last_price)
            /\ last_price' = last'.price
            /\ pc' = "sleep"
       /\ (pc = "loop" /\ pc' = "attempt") => ~shutdown_flag
       /\ (pc = "loop" /\ shutdown_flag /\ pc' # pc) => pc' = "done"]_vars
C13_Witness ==
    /\ pc = "done"
    /\ shutdown_flag
    /\ last.flagged
    /\ last.kind = "ok"
    /\ Ops(last.calls) = <<"send">>
    /\ last.calls[1].ok
    /\ last_price = last.price
    /\ Alerting

\* C14: when shutdown_flag is set during the inter-tick sleep or a backoff
\* delay, the wait ends before its full duration and no further attempt of
\* the check, a pending retry included, is made.
\* Stated as the claim states it; the code breaks it: asyncio.sleep is not
\* cancelled by the handler, and retry_with_backoff does not test the flag.
C14_WaitsCancelled ==
    [][/\ (pc = "backoff" /\ shutdown_flag /\ pc' # pc) =>
            /\ pc' # "attempt"
            /\ waited' < delay * attempt
       /\ (pc = "sleep" /\ shutdown_flag /\ pc' # pc) =>
            waited' < check_interval]_vars

\* C15: after every check that fetched a price, whatever chat call it made
\* and whether or not that call succeeded, last_price is the price fetched.
C15_LastPriceIsFetched ==
    [][(IsCheck /\ Fetched) => last_price' = last'.price]_vars
C15_Witness ==
    /\ last.kind = "ok"
    /\ Ops(last.calls) = <<"edit">>
    /\ ~last.calls[1].ok
    /\ last_price = last.price
    /\ <<last_message_id_in_range, last_price>> \notin chat

\* C16: every call of the check makes exactly one HTTP GET and at most one
\* chat call, whatever the state and the outcome of the fetch.
C16_OneGetAtMostOneCall ==
    last.kind # "init" =>
        /\ last.requests = <<"GET">>
        /\ Len(last.calls) <= 1
C16_Witness ==
    /\ last.kind = "ok"
    /\ last.requests = <<"GET">>
    /\ Ops(last.calls) = <<"delete">>
    /\ last.calls[1].ok
    /\ chat = {}

\* C17: while every chat call succeeds, no edit is issued whose text shows
\* the price the message already shows.
\* Stated as the claim states it; the code breaks it when the price comes
\* back to the shown value through the band, because last_price follows
\* every fetched price and not the price shown.
C17_NoRedundantEdit ==
    callsOk =>
        \A i \in 1..Len(last.calls) :
            last.calls[i].op = "edit" => last.calls[i].was # last.price

\* C18: while every chat call has succeeded, whenever the state is Alerting
\* the message last_message_id_in_range names is in the chat and shows the
\* latest fetched price that was below lower.
C18_ShownPriceIsLatestLow ==
    (callsOk /\ Alerting) =>
        /\ lastLow # NoPrice
        /\ <<last_message_id_in_range, lastLow>> \in chat
C18_Witness ==
    /\ callsOk
    /\ Alerting
    /\ last.kind = "ok"
    /\ Ops(last.calls) = <<"edit">>
    /\ last.calls[1].was # last.price
    /\ lastLow = last.price
    /\ <<last_message_id_in_range, lastLow>> \in chat
    /\ deleted # {}

\* C19: every edit and every delete is addressed to an id that an earlier
\* successful send returned and for which no delete has been issued; none
\* is addressed to None.
C19_CallsAddressSentIds ==
    [][IsCheck =>
        \A i \in 1..Len(last'.calls) :
            last'.calls[i].op \in {"edit", "delete"} =>
                /\ last'.calls[i].target # None
                /\ last'.calls[i].target \in sent
                /\ last'.calls[i].target \notin deleted
                /\ last'.calls[i].target = last_message_id_in_range]_vars
C19_Witness ==
    /\ ~callsOk
    /\ deleted # {}
    /\ Ops(last.calls) = <<"delete">>
    /\ last.calls[1].target \in sent
    /\ last.calls[1].target \in deleted
    /\ Cardinality(deleted) >= 2
    /\ Idle

\* C20: after a failed send the state is Idle; if from then on the loop
\* keeps running and every check fetches a price below lower, then (sends
\* not failing for ever) eventually the state is Alerting with its message
\* in the chat.
SendFailed ==
    /\ Idle
    /\ nextId <= MaxMsgs
    /\ last.kind = "ok"
    /\ Ops(last.calls) = <<"send">>
    /\ ~last.calls[1].ok
StaysLow ==
    /\ ~shutdown_flag
    /\ last.kind = "ok"
    /\ last.price < gas_fee_lower_threshold
AlertingLive == Alerting /\ last_message_id_in_range \in LiveIds
C20_AlertNotLost == [](SendFailed => ([]StaysLow => <>AlertingLive))
C20_Witness ==
    /\ ~callsOk
    /\ AlertingLive
    /\ sent = {last_message_id_in_range}
    /\ deleted = {}
    /\ last.before = None
    /\ Ops(last.calls) = <<"send">>
    /\ last.calls[1].ok
    /\ last.price < gas_fee_lower_threshold
====
